---- MODULE Spec2Model ----
(***************************************************************************)
(* Model of the binary PPM ("P6") decoder of src/ppm/decoder.rs.           *)
(*                                                                         *)
(* The input stream is a sequence of read outcomes: a byte 0..255, or      *)
(* IOERR for a read call that returns Err.  The decoder is the pair of a   *)
(* cursor into that stream and the three header fields.                    *)
(*                                                                         *)
(* Spec runs every method as one step.  SpecSteps runs new one read at a   *)
(* time, pc telling where the running call is and call holding its        *)
(* locals; there a stream may end in STUCK, a read that returns Err every  *)
(* time it is called.                                                      *)
(*                                                                         *)
(* u32 values are kept as little-endian sequences of base-256 limbs        *)
(* without leading zero limbs (the empty sequence is 0), because the       *)
(* model checker's integers stop at 2^31-1.  A value fits in u32 iff it    *)
(* has at most 4 limbs, in u16 iff at most 2, in u8 iff at most 1.         *)
(***************************************************************************)
EXTENDS Integers, Sequences, FiniteSets, TLC

VARIABLES stream, shape, pos, state, width, height, maxwhite, ret, pc, call

vars == <<stream, shape, pos, state, width, height, maxwhite, ret, pc, call>>

----------------------------------------------------------------------------
(* Bytes the code names. *)

TAB == 9
LF == 10
VT == 11
FF == 12
CR == 13
SPACE == 32
HASH == 35
PLUS == 43
CHAR_0 == 48
CHAR_3 == 51
CHAR_6 == 54
CHAR_9 == 57
CHAR_P == 80
ASCII_LIMIT == 128

(* A read call on the underlying stream that returns Err. *)
IOERR == 256

(* A read call that returns Err, and does so again at every later call. *)
STUCK == 257

Failing == {IOERR, STUCK}

(* the vertical tab left out *)
Whitespace_without_vt == {TAB, LF, FF, CR, SPACE}

Whitespace == {TAB, LF, VT, FF, CR, SPACE}

----------------------------------------------------------------------------
(* Arithmetic on limb sequences. *)

LIMB == 256

Zero == << >>

RECURSIVE FromNat(_)
FromNat(n) == IF n = 0 THEN << >> ELSE <<n % LIMB>> \o FromNat(n \div LIMB)

RECURSIVE ToNat(_)
ToNat(b) == IF b = << >> THEN 0 ELSE b[1] + LIMB * ToNat(Tail(b))

RECURSIVE Trim(_)
Trim(b) ==
    IF b = << >> THEN << >>
    ELSE IF b[Len(b)] = 0 THEN Trim(SubSeq(b, 1, Len(b) - 1))
    ELSE b

RECURSIVE MulCarry(_, _, _)
MulCarry(b, k, c) ==
    IF b = << >> THEN FromNat(c)
    ELSE LET t == b[1] * k + c
         IN  <<t % LIMB>> \o MulCarry(Tail(b), k, t \div LIMB)

(* b * k for a small k *)
MulSmall(b, k) == Trim(MulCarry(b, k, 0))

RECURSIVE AddCarry(_, _, _)
AddCarry(a, b, c) ==
    IF a = << >> /\ b = << >> THEN FromNat(c)
    ELSE LET x == IF a = << >> THEN 0 ELSE a[1]
             y == IF b = << >> THEN 0 ELSE b[1]
             t == x + y + c
         IN  <<t % LIMB>> \o AddCarry(IF a = << >> THEN a ELSE Tail(a),
                                      IF b = << >> THEN b ELSE Tail(b),
                                      t \div LIMB)

Add(a, b) == Trim(AddCarry(a, b, 0))

AddSmall(b, k) == Add(b, FromNat(k))

(* x * 256 *)
ShiftLimb(x) == IF x = << >> THEN x ELSE <<0>> \o x

RECURSIVE Mul(_, _)
Mul(a, b) ==
    IF b = << >> THEN << >>
    ELSE Add(MulSmall(a, b[1]), ShiftLimb(Mul(a, Tail(b))))

FitsU32(b) == Len(b) <= 4
FitsU16(b) == Len(b) <= 2
FitsU8(b) == Len(b) <= 1

(* the low 32 bits: what a wrapping u32 operation keeps *)
WrapU32(b) == Trim(SubSeq(b, 1, IF Len(b) < 4 THEN Len(b) ELSE 4))

----------------------------------------------------------------------------
(* Results and errors. *)

FormatError(msg) == [kind |-> "FormatError", msg |-> msg]
IoError == [kind |-> "IoError", msg |-> "io"]
DimensionError == [kind |-> "DimensionError", msg |-> ""]
NoError == [kind |-> "none", msg |-> ""]

BadMagic == FormatError("Expected magic constant for ppm, P3 or P6")
PlainUnsupported == FormatError("Plain format is not yet supported")
MaxvalTooBig == FormatError("Image maxval is not less or equal to 65535")
UnexpectedEof == FormatError("Unexpected eof")
NonAscii == FormatError("Non ascii character in preamble")
InvalidNumber == FormatError("Invalid number in preamble")
TooManyBits == FormatError("Don't know how to decode PPM with more than 16 bits")

----------------------------------------------------------------------------
(* The reader. *)

(* The least element of a set of indices, or 0 for the empty set. *)
Least(hits) == IF hits = {} THEN 0 ELSE CHOOSE i \in hits : \A j \in hits : i <= j

(* Index of the first failing read among s[p+1 .. q], or 0. *)
FirstErr(s, p, q) == Least({i \in (p + 1)..q : s[i] \in Failing})

(* read_exact of n bytes at cursor p, e being the first failing read in
   reach: it fills the buffer or fails; a failure leaves the cursor behind
   whatever was consumed. *)
ReadExactWith(s, p, n, e) ==
    IF e # 0 THEN [ok |-> FALSE, data |-> << >>, pos |-> e]
    ELSE IF p + n > Len(s) THEN [ok |-> FALSE, data |-> << >>, pos |-> Len(s)]
    ELSE [ok |-> TRUE, data |-> SubSeq(s, p + 1, p + n), pos |-> p + n]

read_exact(s, p, n) ==
    ReadExactWith(s, p, n, FirstErr(s, p, IF p + n < Len(s) THEN p + n ELSE Len(s)))

----------------------------------------------------------------------------
(* The header tokenizer: read_next_string. *)

(* One step of the scan closure: the comment mask of one read outcome.
   partof is TRUE outside a comment. *)
(* the CR or LF that ends a comment let through to the token *)
ScanStep_keep_terminator(partof, read) ==
    IF read = IOERR THEN [partof |-> partof, enabled |-> partof]
    ELSE LET cur_enabled == partof /\ read # HASH
             next_enabled == cur_enabled \/ (read = CR \/ read = LF)
         IN  [partof |-> next_enabled, enabled |-> next_enabled]

ScanStep(partof, read) ==
    IF read = IOERR THEN [partof |-> partof, enabled |-> partof]
    ELSE LET cur_enabled == partof /\ read # HASH
             next_enabled == cur_enabled \/ (read = CR \/ read = LF)
         IN  [partof |-> next_enabled, enabled |-> cur_enabled]

(* The for loop over the filtered iterator, from cursor p with the bytes
   accumulated so far.  stop tells how the loop ended: "ws" at the break on
   a whitespace byte, "err" at the break on a failed read, "eof" when the
   iterator ran out.  TokenStep is the loop body for the read outcome read
   and its mask m. *)
RECURSIVE TokenLoop(_, _, _, _)
RECURSIVE TokenStep(_, _, _, _, _)
(* the separator left in the stream *)
TokenStep_keep_separator(s, p, bytes, read, m) ==
    IF ~m.enabled THEN TokenLoop(s, p + 1, m.partof, bytes)
    ELSE IF read = IOERR
         THEN [bytes |-> bytes, pos |-> p + 1, stop |-> "err"]
    ELSE IF read \in Whitespace
         THEN IF bytes # << >>
              THEN [bytes |-> bytes, pos |-> p, stop |-> "ws"]
              ELSE TokenLoop(s, p + 1, m.partof, bytes)
    ELSE TokenLoop(s, p + 1, m.partof, Append(bytes, read))

TokenStep(s, p, bytes, read, m) ==
    IF ~m.enabled THEN TokenLoop(s, p + 1, m.partof, bytes)
    ELSE IF read = IOERR
         THEN [bytes |-> bytes, pos |-> p + 1, stop |-> "err"]
    ELSE IF read \in Whitespace
         THEN IF bytes # << >>
              THEN [bytes |-> bytes, pos |-> p + 1, stop |-> "ws"]
              ELSE TokenLoop(s, p + 1, m.partof, bytes)
    ELSE TokenLoop(s, p + 1, m.partof, Append(bytes, read))

TokenLoop(s, p, partof, bytes) ==
    IF p >= Len(s) THEN [bytes |-> bytes, pos |-> p, stop |-> "eof"]
    ELSE TokenStep(s, p, bytes, s[p + 1], ScanStep(partof, s[p + 1]))

(* control bytes and 0x7F refused as well *)
is_ascii_printable(bytes) ==
    \A i \in 1..Len(bytes) : bytes[i] > SPACE /\ bytes[i] < ASCII_LIMIT - 1

is_ascii(bytes) == \A i \in 1..Len(bytes) : bytes[i] < ASCII_LIMIT

(* What follows the loop.  from_utf8 cannot fail on bytes that passed
   is_ascii, so its map_err branch has no outcome of its own. *)
TokenResult(r) ==
    IF r.bytes = << >>
    THEN [ok |-> FALSE, err |-> UnexpectedEof, val |-> << >>,
          pos |-> r.pos, stop |-> r.stop]
    ELSE IF ~is_ascii(r.bytes)
    THEN [ok |-> FALSE, err |-> NonAscii, val |-> << >>,
          pos |-> r.pos, stop |-> r.stop]
    ELSE [ok |-> TRUE, err |-> NoError, val |-> r.bytes,
          pos |-> r.pos, stop |-> r.stop]

read_next_string(s, p) == TokenResult(TokenLoop(s, p, TRUE, << >>))

----------------------------------------------------------------------------
(* The numeric parser: str::parse::<u32>, i.e. u32::from_str_radix(s, 10). *)

IsDigit(c) == c >= CHAR_0 /\ c <= CHAR_9

(* One digit at a time: checked_mul by the radix, then checked_add. *)
RECURSIVE ParseDigits(_, _)
RECURSIVE ParseDigit(_, _, _)
ParseDigit(digits, mul, sum) ==
    IF ~FitsU32(mul) \/ ~FitsU32(sum) THEN [ok |-> FALSE, val |-> Zero]
    ELSE ParseDigits(Tail(digits), sum)

ParseDigits(digits, acc) ==
    IF digits = << >> THEN [ok |-> TRUE, val |-> acc]
    ELSE IF ~IsDigit(digits[1]) THEN [ok |-> FALSE, val |-> Zero]
    ELSE ParseDigit(digits, MulSmall(acc, 10),
                    AddSmall(MulSmall(acc, 10), digits[1] - CHAR_0))

(* An unsigned type takes an optional leading '+' and no '-'. *)
parse_u32(src) ==
    IF src = << >> THEN [ok |-> FALSE, val |-> Zero]
    ELSE IF src[1] = PLUS
         THEN IF Tail(src) = << >> THEN [ok |-> FALSE, val |-> Zero]
              ELSE ParseDigits(Tail(src), Zero)
    ELSE ParseDigits(src, Zero)

(* the token t parsed to n *)
NumberResult(t, n) ==
    IF ~n.ok
    THEN [ok |-> FALSE, err |-> InvalidNumber, val |-> Zero,
          pos |-> t.pos, stop |-> t.stop]
    ELSE [ok |-> TRUE, err |-> NoError, val |-> n.val,
          pos |-> t.pos, stop |-> t.stop]

TokenNumber(t) ==
    IF ~t.ok
    THEN [ok |-> FALSE, err |-> t.err, val |-> Zero, pos |-> t.pos, stop |-> t.stop]
    ELSE NumberResult(t, parse_u32(t.val))

read_next_u32(s, p) == TokenNumber(read_next_string(s, p))

----------------------------------------------------------------------------
(* PPMDecoder::new as a function of the stream.  step names the place that
   returned: "magic", "width", "height", "maxval", "range" or "done". *)

NewFail(e, p, step) ==
    [ok |-> FALSE, err |-> e, pos |-> p, step |-> step, stop |-> "none",
     width |-> Zero, height |-> Zero, maxwhite |-> Zero]

(* the variant test made before the test of the first byte *)
MagicCheck_variant_first(magic) ==
    IF magic[2] = CHAR_3 THEN PlainUnsupported
    ELSE IF magic[1] # CHAR_P \/ magic[2] # CHAR_6 THEN BadMagic
    ELSE NoError

MagicCheck(magic) ==
    IF magic[1] # CHAR_P \/ (magic[2] # CHAR_3 /\ magic[2] # CHAR_6) THEN BadMagic
    ELSE IF magic[2] = CHAR_3 THEN PlainUnsupported
    ELSE NoError

(* < in place of <= *)
MaxvalCheck_strict(m) ==
    IF ~FitsU16(m) \/ m = <<255, 255>> THEN MaxvalTooBig ELSE NoError

MaxvalCheck(m) == IF ~FitsU16(m) THEN MaxvalTooBig ELSE NoError

(* new from the point where width w, height h and maxwhite m were read *)
NewAfterMaxval(w, h, m) ==
    IF ~m.ok THEN NewFail(m.err, m.pos, "maxval")
    ELSE IF MaxvalCheck(m.val) # NoError
    THEN NewFail(MaxvalCheck(m.val), m.pos, "range")
    ELSE [ok |-> TRUE, err |-> NoError, pos |-> m.pos, step |-> "done",
          stop |-> m.stop,
          width |-> w.val, height |-> h.val, maxwhite |-> m.val]

NewAfterHeight(s, w, h) ==
    IF ~h.ok THEN NewFail(h.err, h.pos, "height")
    ELSE NewAfterMaxval(w, h, read_next_u32(s, h.pos))

(* the height token read before the error of the width token is returned *)
NewAfterWidth_reading_on(s, w) ==
    IF ~w.ok THEN NewFail(w.err, read_next_u32(s, w.pos).pos, "width")
    ELSE NewAfterHeight(s, w, read_next_u32(s, w.pos))

NewAfterWidth(s, w) ==
    IF ~w.ok THEN NewFail(w.err, w.pos, "width")
    ELSE NewAfterHeight(s, w, read_next_u32(s, w.pos))

(* what try! makes of the io::Error of a failed read_exact *)
FromIoError == IoError

NewAfterMagic(s, magic) ==
    IF ~magic.ok THEN NewFail(FromIoError, magic.pos, "magic")
    ELSE IF MagicCheck(magic.data) # NoError
    THEN NewFail(MagicCheck(magic.data), magic.pos, "magic")
    ELSE NewAfterWidth(s, read_next_u32(s, magic.pos))

new(s) == NewAfterMagic(s, read_exact(s, 0, 2))

----------------------------------------------------------------------------
(* The ImageDecoder methods as functions of the decoder's fields. *)

bytewidth(m) == IF FitsU8(m) THEN 1 ELSE 2

(* (height, width) *)
dimensions_swapped(w, h) == [ok |-> TRUE, err |-> NoError, val |-> <<h, w>>]

dimensions(w, h) == [ok |-> TRUE, err |-> NoError, val |-> <<w, h>>]

colortype(m) ==
    IF bytewidth(m) = 1 THEN [ok |-> TRUE, err |-> NoError, val |-> <<"RGB", 8>>]
    ELSE IF bytewidth(m) = 2 THEN [ok |-> TRUE, err |-> NoError, val |-> <<"RGB", 16>>]
    ELSE [ok |-> FALSE, err |-> TooManyBits, val |-> <<"none", 0>>]

(* wrapping_mul in place of checked_mul *)
Checked_wrapping(v) == [some |-> TRUE, v |-> WrapU32(v)]

(* Some(v) when v fits in u32, else None *)
Checked(v) ==
    IF FitsU32(v) THEN [some |-> TRUE, v |-> v] ELSE [some |-> FALSE, v |-> Zero]

checked_mul(a, b) == Checked(Mul(a, b))

(* Option::map_or(None, |v| v.checked_mul(k)) *)
map_or_none(opt, k) == IF opt.some THEN checked_mul(opt.v, k) ELSE opt

(* without the factor bytewidth *)
opt_size_unscaled(w, h, m) ==
    map_or_none(checked_mul(w, h), FromNat(3))

opt_size(w, h, m) ==
    map_or_none(map_or_none(checked_mul(w, h), FromNat(3)), FromNat(bytewidth(m)))

Panic(msg) == [kind |-> "panic", msg |-> msg]
MulOverflow == Panic("attempt to multiply with overflow")

(* An unchecked u32 product: the value when it fits; otherwise a debug
   build panics and a release build keeps the low 32 bits.  *)
unchecked(v, build) ==
    IF FitsU32(v) THEN [ok |-> TRUE, v |-> v]
    ELSE IF build = "debug" THEN [ok |-> FALSE, v |-> Zero]
    ELSE [ok |-> TRUE, v |-> WrapU32(v)]

(* a * k after the unchecked product a *)
unchecked_mul(a, k, build) ==
    IF a.ok THEN unchecked(Mul(a.v, k), build) ELSE a

Builds == {"debug", "release"}

RowLenResult(b) ==
    IF b.ok THEN [ok |-> TRUE, err |-> NoError, val |-> b.v]
    ELSE [ok |-> FALSE, err |-> MulOverflow, val |-> Zero]

row_len(w, m, build) ==
    RowLenResult(unchecked_mul(unchecked(MulSmall(w, 3), build),
                               FromNat(bytewidth(m)), build))

(* out.chunks_mut(1).zip(data.chunks(2)) with BigEndian::read_u16 on each
   chunk: n samples, sample k taken from the k-th chunk of two bytes; a
   final chunk of one byte makes read_u16 panic; samples past the last
   chunk stay 0. *)
(* LittleEndian in place of BigEndian *)
be_samples_little(data, n) ==
    [ok |-> TRUE,
     out |-> [k \in 1..n |-> IF 2 * k <= Len(data)
                             THEN data[2 * k - 1] + 256 * data[2 * k]
                             ELSE 0]]

be_samples(data, n) ==
    LET chunks == (Len(data) + 1) \div 2
        pairs == IF n < chunks THEN n ELSE chunks
    IN  IF Len(data) % 2 = 1 /\ pairs = chunks
        THEN [ok |-> FALSE, out |-> << >>]
        ELSE [ok |-> TRUE,
              out |-> [k \in 1..n |-> IF k <= pairs
                                      THEN 256 * data[2 * k - 1] + data[2 * k]
                                      ELSE 0]]

(* read_image at cursor p.  size is the Option computed first; alloc tells
   whether the byte buffer was allocated; data is the samples, tag their
   type; pos the cursor afterwards. *)
ReadFail(e, p, size, alloc) ==
    [ok |-> FALSE, err |-> e, tag |-> "none", data |-> << >>, pos |-> p,
     size |-> size, alloc |-> alloc]

SamplesResult(r, p, size) ==
    IF ~r.ok THEN ReadFail(Panic("read_u16 on a short chunk"), p, size, TRUE)
    ELSE [ok |-> TRUE, err |-> NoError, tag |-> "U16", data |-> r.out,
          pos |-> p, size |-> size, alloc |-> TRUE]

(* The 16-bit branch, n being the unchecked width * height * 3 *)
U16Result(data, p, size, n) ==
    IF ~n.ok THEN ReadFail(MulOverflow, p, size, TRUE)
    ELSE SamplesResult(be_samples(data, ToNat(n.v)), p, size)

read_u16_image(data, p, size, w, h, build) ==
    U16Result(data, p, size,
              unchecked_mul(unchecked(Mul(w, h), build), FromNat(3), build))

(* a short read answered with what was read, the rest left 0 *)
ReadResult_zero_padded(r, size, w, h, m, build) ==
    IF ~r.ok
    THEN [ok |-> TRUE, err |-> NoError, tag |-> "U8",
          data |-> [k \in 1..ToNat(size.v) |-> 0],
          pos |-> r.pos, size |-> size, alloc |-> TRUE]
    ELSE IF bytewidth(m) = 1
    THEN [ok |-> TRUE, err |-> NoError, tag |-> "U8", data |-> r.data,
          pos |-> r.pos, size |-> size, alloc |-> TRUE]
    ELSE read_u16_image(r.data, r.pos, size, w, h, build)

(* after the bulk read r *)
ReadResult(r, size, w, h, m, build) ==
    IF ~r.ok THEN ReadFail(IoError, r.pos, size, TRUE)
    ELSE IF bytewidth(m) = 1
    THEN [ok |-> TRUE, err |-> NoError, tag |-> "U8", data |-> r.data,
          pos |-> r.pos, size |-> size, alloc |-> TRUE]
    ELSE read_u16_image(r.data, r.pos, size, w, h, build)

(* read_to_end in place of read_exact *)
ReadSized_to_end(s, p, size, w, h, m, build) ==
    IF ~size.some THEN ReadFail(DimensionError, p, size, FALSE)
    ELSE IF Len(size.v) > 3
    THEN ReadFail(IoError, read_exact(s, p, Len(s) + 1).pos, size, TRUE)
    ELSE ReadResult(read_exact(s, p, Len(s) - p), size, w, h, m, build)

(* A buffer of 2^24 bytes or more is longer than any stream of the model,
   so its bulk read runs into the end of the stream. *)
ReadSized(s, p, size, w, h, m, build) ==
    IF ~size.some THEN ReadFail(DimensionError, p, size, FALSE)
    ELSE IF Len(size.v) > 3
    THEN ReadFail(IoError, read_exact(s, p, Len(s) + 1).pos, size, TRUE)
    ELSE ReadResult(read_exact(s, p, ToNat(size.v)), size, w, h, m, build)

read_image(s, p, w, h, m, build) ==
    ReadSized(s, p, opt_size(w, h, m), w, h, m, build)

----------------------------------------------------------------------------
(* The streams the decoder is run on.  Each comes with its shape: how it
   was put together, which is what the properties are stated against. *)

MaxBody == 13
MaxTok == 3

(* the ASCII digits of a sequence of digit values *)
D(ds) == [i \in 1..Len(ds) |-> CHAR_0 + ds[i]]

(* the decimal token of a number below 2^31 *)
RECURSIVE Dec(_)
Dec(n) == IF n < 10 THEN <<CHAR_0 + n>> ELSE Dec(n \div 10) \o <<CHAR_0 + (n % 10)>>

(* A number: its value in limbs, as an integer when below 2^31 (else -1),
   and its decimal token. *)
Num(n) == [val |-> FromNat(n), nat |-> n, dec |-> Dec(n)]
NumU32Max == [val |-> <<255, 255, 255, 255>>, nat |-> -1,
              dec |-> D(<<4, 2, 9, 4, 9, 6, 7, 2, 9, 5>>)]
NumU32Over == [val |-> <<0, 0, 0, 0, 1>>, nat |-> -1,
               dec |-> D(<<4, 2, 9, 4, 9, 6, 7, 2, 9, 6>>)]

SmallDims == {Num(0), Num(1), Num(2)}
Maxvals == {Num(0), Num(1), Num(255), Num(256), Num(65535), Num(65536), NumU32Max}
BigDims == {Num(0), Num(1), Num(3), Num(65535), Num(65536),
            Num(715827882), Num(715827883), Num(1431655765), Num(1431655766),
            NumU32Max, NumU32Over}

Magic == <<CHAR_P, CHAR_6>>

(* payload bytes: bodies are the prefixes of three patterns that hold
   digits, whitespace, '#', 0 and 0xFF *)
Patterns ==
    { <<49, 50, 51, 52, 53, 54, 55, 56, 57, 48, 49, 50, 51, 52, 53, 54>>,
      <<32, 35, 10, 255, 0, 1, 128, 13, 9, 35, 32, 7, 200, 10, 64, 3>>,
      <<35, 255, 254, 32, 0, 0, 255, 1, 2, 3, 10, 35, 127, 129, 11, 12>> }
Bodies(max) == {SubSeq(pat, 1, n) : pat \in Patterns, n \in 0..max}

(* "P6" ws width ws height ws maxval sep payload, the form of the wire format *)
WfStream(w, h, m, sep, body) ==
    [stream |-> Magic \o <<SPACE>> \o w.dec \o <<SPACE>> \o h.dec \o <<LF>> \o m.dec
                 \o <<sep>> \o body,
     shape |-> [fam |-> "wf", w |-> w, h |-> h, m |-> m, payload |-> body,
                start |-> 2 + 1 + Len(w.dec) + 1 + Len(h.dec) + 1 + Len(m.dec) + 1]]

FamSmall == {WfStream(w, h, m, sep, body) :
                w \in SmallDims, h \in SmallDims, m \in Maxvals,
                sep \in {SPACE, LF}, body \in Bodies(MaxBody)}

FamDim == {WfStream(w, h, m, SPACE, body) :
                w \in BigDims, h \in BigDims, m \in {Num(255), Num(256)},
                body \in Bodies(3)}

(* every prefix of at most two read outcomes, alone or before a header *)
MagicBytes == {CHAR_P, CHAR_3, CHAR_6, 53, 88, SPACE, IOERR}
MagicPrefixes == {<< >>} \cup {<<a>> : a \in MagicBytes}
                    \cup {<<a, b>> : a \in MagicBytes, b \in MagicBytes}
MagicRests == {<< >>, <<SPACE, 49, SPACE, 49, SPACE, 50, 53, 53, SPACE, 49, 50, 51>>}
FamMagic == {[stream |-> pre \o rest,
              shape |-> [fam |-> "magic", prefix |-> pre]] :
                pre \in MagicPrefixes, rest \in MagicRests}

(* every width token of at most MaxTok bytes over digits, signs, letters and
   punctuation, and some long ones *)
TokBytes == {CHAR_0, 49, CHAR_9, PLUS, 45, 120, 95, 46, 97}
RECURSIVE Toks(_)
Toks(n) == IF n = 0 THEN {<< >>}
           ELSE LET shorter == Toks(n - 1)
                IN  shorter \cup {Append(t, c) : t \in {u \in shorter : Len(u) = n - 1},
                                                 c \in TokBytes}
LongToks == {NumU32Max.dec, NumU32Over.dec, <<PLUS>> \o NumU32Max.dec,
             <<PLUS>> \o NumU32Over.dec, <<CHAR_0, CHAR_0>> \o NumU32Max.dec,
             D(<<4, 2, 9, 4, 9, 6, 7, 3, 0, 0>>), D(<<9, 9, 9, 9, 9, 9, 9, 9, 9, 9>>),
             D(<<4, 2, 9, 4, 9, 6, 7, 2, 9, 5, 0>>), D(<<0, 0, 0, 0, 0, 0, 0, 0, 0, 0, 0, 7>>)}
FamNum == {[stream |-> Magic \o <<SPACE>> \o tok \o <<SPACE, 49, SPACE>> \o m.dec
                        \o <<SPACE, 49, 50, 51>>,
            shape |-> [fam |-> "num", tok |-> tok, m |-> m]] :
                tok \in (Toks(MaxTok) \ {<< >>}) \cup LongToks,
                m \in {Num(255), Num(65536)}}

(* a header, and what follows the last byte of its maxval token *)
Base(head, rest) == [head |-> head, rest |-> rest]
CommentBases ==
    { Base(<<80, 54, 32, 49, 32, 49, 32, 50, 53, 53>>, <<32, 49, 50, 51>>),
      Base(<<80, 54, 49, 32, 49, 10, 50, 53, 53>>, <<9, 49, 50, 51, 255>>),
      Base(<<80, 54, 32, 49, 32, 49, 32, 50, 53, 53>>, << >>),
      Base(<<80, 54, 32, 49, 32, 49, 32, 50, 53, 53>>, <<32, 35, 50, 10>>),
      Base(<<80, 54, 32, 49, 120, 32, 49, 32, 50, 53, 53>>, <<32, 49, 50, 51>>),
      Base(<<80, 54, 32, 49, 32, 49, 32, 51, 48, 48>>, <<13, 49, 50, 51, 52, 53, 54>>),
      Base(<<80, 54, 32, 49, 32, 49, 32, 54, 53, 53, 51, 54>>, <<32, 49>>) }

(* '#', a body, and the CR or LF that ends it *)
Comments == { <<HASH, LF>>, <<HASH, 53, CR>>, <<HASH, SPACE, HASH, 255, 49, LF>> }

Ins(s, k, c) == SubSeq(s, 1, k) \o c \o SubSeq(s, k + 1, Len(s))

(* the base with no, one or two comments put after the magic bytes and not
   after the last byte of the maxval token *)
Commented(b) ==
    {b.head}
    \cup {Ins(b.head, k, c) : k \in 2..Len(b.head), c \in Comments}
    \cup UNION {{Ins(Ins(b.head, j, d), i, c) :
                    i \in 2..j, c \in Comments, d \in Comments} :
                    j \in 2..Len(b.head)}

FamComment == UNION {{[stream |-> h \o b.rest,
                       shape |-> [fam |-> "comment", base |-> b.head \o b.rest]] :
                        h \in Commented(b)} : b \in CommentBases}

(* streams that stop early, and streams with one failing read *)
CutBases ==
    { <<80, 54, 32, 49, 32, 49, 32, 50, 53, 53, 32, 49, 50, 51>>,
      <<80, 54, 32, 35, 99, 10, 49, 32, 35, 32, 13, 49, 32, 50, 53, 53, 10, 49, 50, 51>>,
      <<80, 54, 10, 50, 32, 49, 32, 50, 53, 54, 32, 0, 1, 2, 3>>,
      <<80, 54, 32, 49, 35, 99, 10, 32, 49, 32, 50, 53, 53, 35, 120, 13, 32, 49, 50, 51>> }
FamCut == UNION {{[stream |-> SubSeq(b, 1, n),
                   shape |-> [fam |-> "cut", base |-> b]] : n \in 0..Len(b)} :
                    b \in CutBases}
FamErr == UNION {{[stream |-> Ins(b, k, <<IOERR>>),
                   shape |-> [fam |-> "err", base |-> b]] : k \in 0..Len(b)} :
                    b \in CutBases}

(* width tokens of one or two bytes over control bytes, 0x7F, bytes from
   0x80 on and a digit *)
CtlBytes == {0, 1, 31, 127, 128, 255, 49}
FamCtl == {[stream |-> Magic \o <<SPACE>> \o tok \o <<SPACE, 49, SPACE, 50, 53, 53,
                                                      SPACE, 49, 50, 51>>,
            shape |-> [fam |-> "ctl", tok |-> tok]] :
                tok \in {<<a>> : a \in CtlBytes}
                        \cup {<<a, b>> : a \in CtlBytes, b \in CtlBytes}}

(* A header and the places of its separators: every choice of whitespace
   bytes at those places (WsAll), or at two of them (WsTwo). *)
Seps(head, at) == [head |-> head, at |-> at]
WsBases ==
    { Seps(<<80, 54, 32, 49, 32, 49, 32, 50, 53, 53, 32, 49, 50, 51>>,
           <<3, 5, 7, 11>>),
      Seps(<<80, 54, 32, 49, 35, 99, 10, 32, 49, 32, 51, 48, 48, 32, 0, 1, 2, 3, 32, 10>>,
           <<3, 8, 10, 14>>),
      Seps(<<80, 54, 32, 49, 120, 32, 49, 32, 50, 53, 53, 32, 49, 50, 51>>,
           <<3, 6, 8, 12>>) }
WsRunBases ==
    { Seps(<<80, 54, 49, 9, 10, 11, 12, 13, 49, 32, 50, 53, 53, 32, 49, 50, 51>>,
           <<4, 5, 6, 7, 8, 10, 14>>),
      Seps(<<80, 54, 32, 32, 50, 10, 13, 49, 32, 50, 53, 53, 9, 9, 10, 35, 13, 32, 48>>,
           <<3, 4, 6, 7, 9, 13>>) }

(* the separator bytes the streams are written with *)
Separators == {TAB, LF, VT, FF, CR, SPACE}

(* the head with the byte cs[i] at the place at[i] *)
Subst(head, at, cs) ==
    [k \in 1..Len(head) |->
        IF \E i \in 1..Len(at) : at[i] = k
        THEN cs[CHOOSE i \in 1..Len(at) : at[i] = k]
        ELSE head[k]]

WsAll(b) == {Subst(b.head, b.at, cs) : cs \in [1..Len(b.at) -> Separators]}
WsTwo(b) == {Subst(b.head, <<b.at[i], b.at[j]>>, <<c, d>>) :
                i \in 1..Len(b.at), j \in 1..Len(b.at),
                c \in Separators, d \in Separators}

FamWs == UNION {{[stream |-> h, shape |-> [fam |-> "ws", base |-> b.head]] :
                    h \in WsAll(b)} : b \in WsBases}
         \cup UNION {{[stream |-> h, shape |-> [fam |-> "ws", base |-> b.head]] :
                    h \in WsTwo(b)} : b \in WsRunBases}

Inputs == FamSmall \cup FamDim \cup FamMagic \cup FamNum \cup FamComment
            \cup FamCut \cup FamErr \cup FamWs \cup FamCtl

----------------------------------------------------------------------------
(* The decoder as a state machine: construction, then any sequence of
   calls of its methods. *)

NoRet == [op |-> "none", from |-> 0, res |-> [ok |-> TRUE]]

(* no item of the iterator at hand *)
NoItem == 0 - 1

(* The locals of a running call: the header field being read, the state of
   the scan closure, the bytes accumulated, the item the iterator gave last,
   how the loop was left, and the width and height already parsed.  NoCall:
   no call is running. *)
NoCall == [field |-> "none", partof |-> TRUE, bytes |-> << >>,
           item |-> NoItem, stop |-> "none", w |-> Zero, h |-> Zero]

Init ==
    /\ \E inp \in Inputs : stream = inp.stream /\ shape = inp.shape
    /\ pos = 0
    /\ state = "unborn"
    /\ width = Zero /\ height = Zero /\ maxwhite = Zero
    /\ ret = NoRet
    /\ pc = "idle" /\ call = NoCall

NewReturns(r) ==
    /\ state' = IF r.ok THEN "ready" ELSE "failed"
    /\ pos' = r.pos
    /\ width' = r.width /\ height' = r.height /\ maxwhite' = r.maxwhite
    /\ ret' = [op |-> "new", from |-> 0, res |-> r]

New ==
    /\ state = "unborn"
    /\ NewReturns(new(stream))
    /\ UNCHANGED <<stream, shape, pc, call>>

Dimensions ==
    /\ state = "ready"
    /\ ret' = [op |-> "dimensions", from |-> pos, res |-> dimensions(width, height)]
    /\ UNCHANGED <<stream, shape, pos, state, width, height, maxwhite, pc, call>>

Colortype ==
    /\ state = "ready"
    /\ ret' = [op |-> "colortype", from |-> pos, res |-> colortype(maxwhite)]
    /\ UNCHANGED <<stream, shape, pos, state, width, height, maxwhite, pc, call>>

RowLen ==
    /\ state = "ready"
    /\ \E build \in Builds :
          ret' = [op |-> "row_len", from |-> pos, res |-> row_len(width, maxwhite, build)]
    /\ UNCHANGED <<stream, shape, pos, state, width, height, maxwhite, pc, call>>

(* the cursor left where it was *)
ReadImageReturns_rewound(r) ==
    /\ pos' = pos
    /\ ret' = [op |-> "read_image", from |-> pos, res |-> r]

ReadImageReturns(r) ==
    /\ pos' = r.pos
    /\ ret' = [op |-> "read_image", from |-> pos, res |-> r]

(* the width given away with the image *)
ReadImage_taking_width ==
    /\ state = "ready"
    /\ \E build \in Builds :
          ReadImageReturns(read_image(stream, pos, width, height, maxwhite, build))
    /\ width' = Zero
    /\ UNCHANGED <<stream, shape, state, height, maxwhite, pc, call>>

ReadImage ==
    /\ state = "ready"
    /\ \E build \in Builds :
          ReadImageReturns(read_image(stream, pos, width, height, maxwhite, build))
    /\ UNCHANGED <<stream, shape, state, width, height, maxwhite, pc, call>>

Next == New \/ Dimensions \/ Colortype \/ RowLen \/ ReadImage

Spec == Init /\ [][Next]_vars

----------------------------------------------------------------------------
(* PPMDecoder::new one read at a time.  The for loop of read_next_string
   asks the iterator for its next item (BytesNext) and runs the scan closure,
   the filter and the loop body on it (LoopBody); what follows the loop, the
   checks, the parse and the return or the start of the next field, is one
   step (AfterLoop). *)

FamStuck == UNION {{[stream |-> SubSeq(b, 1, n) \o <<STUCK>>,
                     shape |-> [fam |-> "stuck", base |-> b]] : n \in 0..Len(b)} :
                      b \in CutBases}

StepInputs == FamCut \cup FamErr \cup FamStuck \cup FamMagic

InitSteps ==
    /\ \E inp \in StepInputs : stream = inp.stream /\ shape = inp.shape
    /\ pos = 0
    /\ state = "unborn"
    /\ width = Zero /\ height = Zero /\ maxwhite = Zero
    /\ ret = NoRet
    /\ pc = "idle" /\ call = NoCall

(* the locals at the start of read_next_string for a field *)
StartToken(field, w, h) ==
    [field |-> field, partof |-> TRUE, bytes |-> << >>,
     item |-> NoItem, stop |-> "none", w |-> w, h |-> h]

(* new returns r *)
Returns(r) == NewReturns(r) /\ pc' = "idle" /\ call' = NoCall

CallNew ==
    /\ state = "unborn" /\ pc = "idle"
    /\ pc' = "magic"
    /\ UNCHANGED <<stream, shape, pos, state, width, height, maxwhite, ret, call>>

MagicStep(magic) ==
    IF ~magic.ok THEN Returns(NewFail(FromIoError, magic.pos, "magic"))
    ELSE IF MagicCheck(magic.data) # NoError
    THEN Returns(NewFail(MagicCheck(magic.data), magic.pos, "magic"))
    ELSE /\ pos' = magic.pos
         /\ pc' = "next" /\ call' = StartToken("width", Zero, Zero)
         /\ UNCHANGED <<state, width, height, maxwhite, ret>>

ReadMagic ==
    /\ pc = "magic"
    /\ MagicStep(read_exact(stream, 0, 2))
    /\ UNCHANGED <<stream, shape>>

(* the field's token parsed to t: the error is returned, or the next field
   is started, or after maxval the range check decides *)
TokenDone(t) ==
    IF ~t.ok THEN Returns(NewFail(t.err, t.pos, call.field))
    ELSE IF call.field = "width"
    THEN /\ pc' = "next" /\ call' = StartToken("height", t.val, Zero)
         /\ UNCHANGED <<state, pos, width, height, maxwhite, ret>>
    ELSE IF call.field = "height"
    THEN /\ pc' = "next" /\ call' = StartToken("maxval", call.w, t.val)
         /\ UNCHANGED <<state, pos, width, height, maxwhite, ret>>
    ELSE Returns(NewAfterMaxval([val |-> call.w], [val |-> call.h], t))

(* the loop is left *)
EndToken(stop) ==
    /\ pc' = "end"
    /\ call' = [call EXCEPT !.stop = stop]
    /\ UNCHANGED <<state, pos, width, height, maxwhite, ret>>

AfterLoop ==
    /\ pc = "end"
    /\ TokenDone(TokenNumber(TokenResult([bytes |-> call.bytes, pos |-> pos,
                                          stop |-> call.stop])))
    /\ UNCHANGED <<stream, shape>>

(* The iterator's next(): None at the end of the stream, else the outcome of
   one read.  A read that failed for good consumes nothing. *)
BytesNext ==
    /\ pc = "next"
    /\ IF pos >= Len(stream) THEN EndToken("eof")
       ELSE /\ pc' = "scan"
            /\ call' = [call EXCEPT !.item = IF stream[pos + 1] = STUCK THEN IOERR
                                             ELSE stream[pos + 1]]
            /\ pos' = IF stream[pos + 1] = STUCK THEN pos ELSE pos + 1
            /\ UNCHANGED <<state, width, height, maxwhite, ret>>
    /\ UNCHANGED <<stream, shape>>

(* back to the iterator with the closure's state and the bytes so far *)
Continue(partof, bytes) ==
    /\ pc' = "next"
    /\ call' = [call EXCEPT !.item = NoItem, !.partof = partof, !.bytes = bytes]
    /\ UNCHANGED <<state, pos, width, height, maxwhite, ret>>

(* the item with its mask m: dropped by the filter, or matched by the body *)
BodyStep(m) ==
    IF ~m.enabled THEN Continue(m.partof, call.bytes)
    ELSE IF call.item = IOERR THEN EndToken("err")
    ELSE IF call.item \in Whitespace
         THEN IF call.bytes # << >> THEN EndToken("ws")
              ELSE Continue(m.partof, call.bytes)
    ELSE Continue(m.partof, Append(call.bytes, call.item))

LoopBody ==
    /\ pc = "scan"
    /\ BodyStep(ScanStep(call.partof, call.item))
    /\ UNCHANGED <<stream, shape>>

CallReadImage ==
    /\ state = "ready" /\ pc = "idle"
    /\ pc' = "read_image"
    /\ UNCHANGED <<stream, shape, pos, state, width, height, maxwhite, ret, call>>

ReturnReadImage ==
    /\ pc = "read_image"
    /\ \E build \in Builds :
          ReadImageReturns(read_image(stream, pos, width, height, maxwhite, build))
    /\ pc' = "idle" /\ call' = NoCall
    /\ UNCHANGED <<stream, shape, state, width, height, maxwhite>>

(* the steps of a call that is running *)
Running == ReadMagic \/ BytesNext \/ LoopBody \/ AfterLoop \/ ReturnReadImage

NextSteps == CallNew \/ CallReadImage \/ Running

PCs == {"idle", "magic", "next", "scan", "end", "read_image"}

(* A step of the running call.  Every step of Running moves pc, and one is
   possible wherever pc is not "idle", so this is Running seen from pc. *)
Step == pc # "idle" /\ pc' \in PCs \ {pc}

(* A call that was made keeps running: every operation blocks its caller
   until it returns. *)
SpecSteps == InitSteps /\ [][NextSteps]_vars /\ WF_pc(Step)

(* every step of a running call is a Step *)
RunningSteps == [][pc # "idle" => Step]_vars

(* On a stream without a read that fails for good, the steps of new add up
   to new as Spec runs it. *)
StepsAgree ==
    (ret.op = "new" /\ pc = "idle" /\ shape.fam # "stuck") =>
        ret.res = new(stream)

----------------------------------------------------------------------------
(* Properties. *)

(* the cursor PPMDecoder::new leaves behind on this stream *)
HeaderEnd == new(stream).pos

(* a read_image call that started right after the header *)
FirstRead == ret.op = "read_image" /\ ret.from = HeaderEnd

Three == FromNat(3)

(* A stream of the wire form whose maxval is below 256 and whose payload has
   exactly width * height * 3 bytes *)
WellFormed8 ==
    /\ shape.fam = "wf"
    /\ shape.m.nat >= 0 /\ shape.m.nat < 256
    /\ FromNat(Len(shape.payload)) = Mul(Mul(shape.w.val, shape.h.val), Three)

Decoded8 ==
    /\ state # "failed"
    /\ ret.op = "new" => ret.res.ok
    /\ ret.op = "dimensions" =>
          ret.res.ok /\ ret.res.val = <<shape.w.val, shape.h.val>>
    /\ ret.op = "colortype" => ret.res.ok /\ ret.res.val = <<"RGB", 8>>
    /\ FirstRead =>
          ret.res.ok /\ ret.res.tag = "U8" /\ ret.res.data = shape.payload

(* C1 as stated: every well-formed P6 stream with maxval < 256 is decoded:
   new succeeds, dimensions() is the (width, height) of the header,
   colortype() is RGB(8) and read_image() returns the payload byte for byte. *)
C1_AnyTokens == WellFormed8 => Decoded8

(* C1, amended: the same for every well-formed P6 stream with maxval < 256
   whose width and height are at most 2^32-1 and whose width * height * 3 is
   at most 2^32-1. *)
C1_Decode8 ==
    (/\ WellFormed8
     /\ FitsU32(shape.w.val) /\ FitsU32(shape.h.val)
     /\ FitsU32(Mul(Mul(shape.w.val, shape.h.val), Three)))
    => Decoded8

C1_Witness ==
    /\ WellFormed8
    /\ FirstRead /\ ret.res.ok
    /\ Len(ret.res.data) = 6 /\ ret.res.data = shape.payload

(* C3: the first two bytes decide: a stream that fails before two bytes were
   read gives IoError; "P6" passes the magic validation; "P3" gives the
   unsupported-variant error; every other pair gives the bad-magic error,
   which is a different error. *)
C3_Magic ==
    ret.op = "new" =>
        IF Len(stream) < 2 \/ stream[1] = IOERR \/ stream[2] = IOERR
        THEN ~ret.res.ok /\ ret.res.err = IoError
        ELSE IF stream[1] = CHAR_P /\ stream[2] = CHAR_6
        THEN ret.res.step # "magic"
        ELSE IF stream[1] = CHAR_P /\ stream[2] = CHAR_3
        THEN ~ret.res.ok /\ ret.res.step = "magic" /\ ret.res.err = PlainUnsupported
        ELSE /\ ~ret.res.ok /\ ret.res.step = "magic"
             /\ ret.res.err = BadMagic /\ ret.res.err # PlainUnsupported

C3_Witness ==
    /\ ret.op = "new" /\ shape.fam = "magic"
    /\ Len(stream) > 2 /\ stream[1] = CHAR_P /\ stream[2] = 53
    /\ ret.res.err = BadMagic

(* a number of the families above 65535 *)
Above65535(n) == n.nat = -1 \/ n.nat > 65535

ValidTokens ==
    /\ shape.fam = "wf"
    /\ FitsU32(shape.w.val) /\ FitsU32(shape.h.val) /\ FitsU32(shape.m.val)

(* C5: with a valid magic and three valid numeric tokens, new fails with the
   unsupported-extension error exactly when maxval > 65535, and otherwise
   succeeds with a sample width of 1 byte when maxval < 256 and of 2 bytes
   when 256 <= maxval <= 65535. *)
C5_MaxvalRange ==
    (ValidTokens /\ ret.op = "new") =>
        IF Above65535(shape.m)
        THEN ~ret.res.ok /\ ret.res.err = MaxvalTooBig /\ state = "failed"
        ELSE /\ ret.res.ok /\ state = "ready"
             /\ bytewidth(maxwhite) = (IF shape.m.nat < 256 THEN 1 ELSE 2)

C5_Witness ==
    /\ ValidTokens /\ ret.op = "new" /\ state = "ready"
    /\ shape.m.nat = 65535 /\ bytewidth(maxwhite) = 2

(* C6 as stated: new succeeds only for headers with 0 < maxval <= 65535. *)
C6_MaxvalPositive ==
    state = "ready" => maxwhite # Zero /\ FitsU16(maxwhite)

SameHeader(a, b) ==
    /\ a.ok = b.ok /\ a.err = b.err
    /\ a.width = b.width /\ a.height = b.height /\ a.maxwhite = b.maxwhite

SameImage(a, b) ==
    a.ok = b.ok /\ a.err = b.err /\ a.tag = b.tag /\ a.data = b.data

(* C2: a stream with '#'-to-line-end comments in its header, after the magic
   bytes, gives what the stream without them gives: the same result of new
   (success or error, width, height, maxval) and the same samples from every
   read_image; the digits on both sides of a comment form one token. *)
C2_CommentTransparent ==
    shape.fam = "comment" =>
        /\ ret.op = "new" => SameHeader(ret.res, new(shape.base))
        /\ ret.op = "read_image" =>
              \E build \in Builds :
                  SameImage(ret.res,
                            read_image(shape.base,
                                       new(shape.base).pos + (ret.from - HeaderEnd),
                                       width, height, maxwhite, build))

(* "P6 1 1 2#\n55 123": the comment is inside the maxval token *)
C2_Witness ==
    /\ shape.fam = "comment"
    /\ stream = <<80, 54, 32, 49, 32, 49, 32, 50, 35, 10, 53, 53, 32, 49, 50, 51>>
    /\ FirstRead /\ ret.res.ok /\ ret.res.data = <<49, 50, 51>>
    /\ maxwhite = <<255>>

(* the value of a token of decimal digits *)
RECURSIVE DigitsValue(_)
DigitsValue(tok) ==
    IF tok = << >> THEN Zero
    ELSE Add(MulSmall(DigitsValue(SubSeq(tok, 1, Len(tok) - 1)), 10),
             FromNat(tok[Len(tok)] - CHAR_0))

OnlyDigits(tok) == \A i \in 1..Len(tok) : tok[i] >= CHAR_0 /\ tok[i] <= CHAR_9

(* C4 as stated: the width token is accepted iff it consists solely of
   decimal digits and its value is at most 2^32-1, and then that value is the
   width; every other token makes new fail with "invalid number in header". *)
C4_DigitsOnly ==
    (shape.fam = "num" /\ ret.op = "new") =>
        IF OnlyDigits(shape.tok) /\ FitsU32(DigitsValue(shape.tok))
        THEN /\ ret.res.step # "width"
             /\ ret.res.ok => width = DigitsValue(shape.tok)
        ELSE ~ret.res.ok /\ ret.res.step = "width" /\ ret.res.err = InvalidNumber

(* the sample width of the decoder, from its maxval *)
SampleWidth == IF ToNat(maxwhite) < 256 THEN 1 ELSE 2

(* width * height * 3 * SampleWidth, not truncated *)
PayloadSize == Mul(Mul(Mul(width, height), Three), FromNat(SampleWidth))

(* n < b for an integer n and a limb sequence b *)
Less(n, b) == Len(b) > 3 \/ n < ToNat(b)

ShortRead ==
    /\ state = "ready" /\ ret.op = "read_image"
    /\ Less(Len(stream) - ret.from, PayloadSize)

NoImage == ~ret.res.ok /\ ret.res.tag = "none" /\ ret.res.data = << >>

(* C7 as stated: a read_image with fewer than width * height * 3 *
   SampleWidth bytes left in the stream fails with IoError and returns no
   image. *)
C7_ShortIsIoError == ShortRead => (NoImage /\ ret.res.err = IoError)

(* C7, amended: a read_image with fewer than width * height * 3 * SampleWidth
   bytes left in the stream, that product being at most 2^32-1, fails with
   IoError and returns no image; when the product is above 2^32-1 the call
   fails with the dimension-overflow error, and returns no image either. *)
C7_ShortRead ==
    ShortRead =>
        /\ NoImage
        /\ ret.res.err = (IF FitsU32(PayloadSize) THEN IoError ELSE DimensionError)

C7_Witness ==
    /\ ShortRead /\ FirstRead
    /\ Len(stream) - ret.from = 5 /\ PayloadSize = <<6>>
    /\ ret.res.err = IoError

(* C8 as stated: whenever new succeeds the byte before the cursor is the one
   whitespace separator that follows the maxval token, and the payload that
   read_image reads starts at the cursor. *)
C8_SeparatorConsumed ==
    /\ (ret.op = "new" /\ ret.res.ok) =>
          /\ pos >= 1 /\ stream[pos] \in Whitespace
          /\ shape.fam = "wf" => pos = shape.start
    /\ (FirstRead /\ ret.res.ok /\ ret.res.tag = "U8") =>
          ret.res.data = SubSeq(stream, HeaderEnd + 1, HeaderEnd + Len(ret.res.data))

(* C8, amended: whenever new succeeds, either a whitespace byte ended the
   maxval token, and then exactly that one separator was consumed, the cursor
   is right after it and the payload that read_image reads starts there
   (further whitespace or '#' bytes are pixel data); or the stream ended, or a
   read failed, before any separator, and then none was consumed and the
   cursor is at the end of the stream, or right after the failed read. *)
C8_HeaderEnd ==
    /\ (ret.op = "new" /\ ret.res.ok) =>
          /\ pos >= 1
          /\ \/ ret.res.stop = "ws" /\ stream[pos] \in Whitespace
             \/ ret.res.stop = "eof" /\ pos = Len(stream)
             \/ ret.res.stop = "err" /\ stream[pos] = IOERR
          /\ shape.fam = "wf" => pos = shape.start
    /\ (FirstRead /\ ret.res.ok /\ ret.res.tag = "U8") =>
          /\ ret.res.data = SubSeq(stream, HeaderEnd + 1, HeaderEnd + Len(ret.res.data))
          /\ shape.fam = "wf" =>
                ret.res.data = SubSeq(shape.payload, 1, Len(ret.res.data))

(* the payload starts with a space, a '#' and a line feed *)
C8_Witness ==
    /\ shape.fam = "wf" /\ FirstRead /\ ret.res.ok /\ ret.from = shape.start
    /\ ret.res.tag = "U8" /\ ret.res.data = <<SPACE, HASH, LF>>

Overflows ==
    \/ ~FitsU32(Mul(width, height))
    \/ ~FitsU32(Mul(Mul(width, height), Three))
    \/ ~FitsU32(PayloadSize)

(* C9: read_image fails with the dimension-overflow error exactly when
   width * height, or that * 3, or that * SampleWidth is above 2^32-1, and
   then no buffer was allocated and the cursor did not move; otherwise the
   size it computed is width * height * 3 * SampleWidth. *)
C9_DimensionOverflow ==
    ret.op = "read_image" =>
        /\ ret.res.err = DimensionError <=> Overflows
        /\ Overflows =>
              ~ret.res.ok /\ ~ret.res.alloc /\ ret.res.pos = ret.from /\ pos = ret.from
        /\ ~Overflows =>
              ret.res.size.some /\ ret.res.size.v = PayloadSize /\ ret.res.alloc

(* only the last product, by SampleWidth = 2, overflows *)
C9_Witness ==
    /\ ret.op = "read_image" /\ ret.res.err = DimensionError
    /\ FitsU32(Mul(Mul(width, height), Three))
    /\ SampleWidth = 2

NoFailingRead == \A i \in 1..Len(stream) : stream[i] # IOERR

(* C10: with 256 <= maxval <= 65535 and at least width * height * 3 * 2
   bytes left in the stream, read_image returns width * height * 3 16-bit
   samples, sample k being 256 * payload[2k] + payload[2k+1], counting the
   bytes from 0 at the cursor. *)
C10_BigEndianPairs ==
    (/\ state = "ready" /\ ret.op = "read_image"
     /\ ToNat(maxwhite) >= 256 /\ ToNat(maxwhite) <= 65535
     /\ NoFailingRead
     /\ ~Less(Len(stream) - ret.from, PayloadSize)) =>
        /\ ret.res.ok /\ ret.res.tag = "U16"
        /\ FromNat(Len(ret.res.data)) = Mul(Mul(width, height), Three)
        /\ \A k \in 1..Len(ret.res.data) :
              ret.res.data[k] = 256 * stream[ret.from + 2 * k - 1]
                                    + stream[ret.from + 2 * k]

C10_Witness ==
    /\ ret.op = "read_image" /\ ret.res.ok /\ ret.res.tag = "U16"
    /\ Len(ret.res.data) = 6
    /\ ret.res.data[1] = 256 * 32 + 35

(* C11: putting any of the six whitespace bytes in the place of any other
   where the header has a separator (after the magic bytes, between tokens,
   in a run of several, and the one after maxval) changes neither the result
   of new nor what read_image returns. *)
C11_WhitespaceInterchangeable ==
    shape.fam = "ws" =>
        /\ ret.op = "new" =>
              SameHeader(ret.res, new(shape.base)) /\ pos = new(shape.base).pos
        /\ ret.op = "read_image" =>
              \E build \in Builds :
                  SameImage(ret.res,
                            read_image(shape.base, ret.from,
                                       width, height, maxwhite, build))

(* "P6" VT "1" FF "1" CR "255" TAB "123" *)
C11_Witness ==
    /\ shape.fam = "ws"
    /\ stream = <<80, 54, VT, 49, FF, 49, CR, 50, 53, 53, TAB, 49, 50, 51>>
    /\ shape.base = <<80, 54, 32, 49, 32, 49, 32, 50, 53, 53, 32, 49, 50, 51>>
    /\ FirstRead /\ ret.res.ok /\ ret.res.data = <<49, 50, 51>>

(* the iterator ran out, or gave a failed read, with no byte accumulated *)
EmptyStop ==
    /\ call.bytes = << >>
    /\ \/ pc = "next" /\ pos >= Len(stream)
       \/ pc = "scan" /\ call.item = IOERR

(* C12 as stated: when the stream ends or a read fails while no token byte
   has been accumulated, inside a comment or not, the tokenizer fails with
   "Unexpected eof" and new returns that error. *)
C12_EmptyStopFails ==
    [][/\ EmptyStop => pc' = "end"
       /\ (pc = "end" /\ call.bytes = << >>) =>
             /\ pc' = "idle" /\ state' = "failed"
             /\ ret'.op = "new" /\ ~ret'.res.ok /\ ret'.res.err = UnexpectedEof]_vars

(* C13 as stated: every call of new and of read_image returns. *)
C13_Terminates == (pc # "idle") ~> (pc = "idle")

(* C14 as stated: row_len returns width * 3 * SampleWidth, not truncated, in
   every state new can produce. *)
C14_RowLenExact ==
    ret.op = "row_len" =>
        ret.res.ok /\ ret.res.val = Mul(MulSmall(width, 3), FromNat(SampleWidth))

(* the payload size the header of a stream of the wire form asks for *)
WfSize ==
    Mul(Mul(Mul(shape.w.val, shape.h.val), Three),
        FromNat(IF shape.m.nat < 256 THEN 1 ELSE 2))

(* a stream of the wire form with tokens in range, maxval at most 65535 and
   more bytes after the header than the payload needs *)
Trailing ==
    /\ ValidTokens /\ ~Above65535(shape.m)
    /\ Len(WfSize) <= 3 /\ ToNat(WfSize) < Len(shape.payload)

(* the same stream cut at the end of its payload *)
Trimmed == SubSeq(stream, 1, shape.start + ToNat(WfSize))

(* C15: bytes after the payload are ignored: on a stream that is well formed
   up to the end of its payload and goes on with any bytes, new and read_image
   succeed and return what they return on the stream cut at the end of the
   payload. *)
C15_TrailingIgnored ==
    Trailing =>
        /\ ret.op = "new" => ret.res.ok /\ ret.res = new(Trimmed)
        /\ FirstRead =>
              /\ ret.res.ok
              /\ \E build \in Builds :
                    ret.res = read_image(Trimmed, ret.from,
                                         width, height, maxwhite, build)
              /\ ret.res.tag = "U8" =>
                    ret.res.data = SubSeq(shape.payload, 1, ToNat(WfSize))

(* one pixel, then a space *)
C15_Witness ==
    /\ Trailing /\ FirstRead /\ ret.res.ok
    /\ shape.payload = <<35, 255, 254, 32>>
    /\ ret.res.data = <<35, 255, 254>>

(* the steps of new on this stream, each from where the one before ended *)
HeaderMagic == read_exact(stream, 0, 2)
HeaderWidth == read_next_u32(stream, 2)
HeaderHeight == read_next_u32(stream, HeaderWidth.pos)
HeaderMaxval == read_next_u32(stream, HeaderHeight.pos)

(* new returned the error err with the cursor at p *)
FailsAt(err, p) == ~ret.res.ok /\ ret.res.err = err /\ pos = p /\ state = "failed"

(* C16: new checks the magic bytes, reads the width, the height and the
   maxval token and checks the maxval range in that order, returns the error
   of the first of these that fails, and has then read nothing past it: a
   malformed width is reported as such whatever the maxval is. *)
C16_FailFast ==
    /\ ret.op = "new" =>
          IF ~HeaderMagic.ok THEN FailsAt(IoError, HeaderMagic.pos)
          ELSE IF MagicCheck(HeaderMagic.data) # NoError
          THEN FailsAt(MagicCheck(HeaderMagic.data), 2)
          ELSE IF ~HeaderWidth.ok THEN FailsAt(HeaderWidth.err, HeaderWidth.pos)
          ELSE IF ~HeaderHeight.ok THEN FailsAt(HeaderHeight.err, HeaderHeight.pos)
          ELSE IF ~HeaderMaxval.ok THEN FailsAt(HeaderMaxval.err, HeaderMaxval.pos)
          ELSE IF ~FitsU16(HeaderMaxval.val)
          THEN FailsAt(MaxvalTooBig, HeaderMaxval.pos)
          ELSE ret.res.ok /\ pos = HeaderMaxval.pos
    /\ (ret.op = "new" /\ shape.fam = "num" /\ ~parse_u32(shape.tok).ok) =>
          FailsAt(InvalidNumber, 2 + 1 + Len(shape.tok) + 1)

(* "P6 x 1 65536 123" *)
C16_Witness ==
    /\ ret.op = "new" /\ shape.fam = "num"
    /\ shape.tok = <<120>> /\ shape.m.nat = 65536
    /\ FailsAt(InvalidNumber, 5)

(* a byte from '!' to '~' *)
Printable(c) == c > SPACE /\ c < 127

HasNonPrintable(tok) == \E i \in 1..Len(tok) : ~Printable(tok[i])
HasNonAscii(tok) == \E i \in 1..Len(tok) : tok[i] >= 128

(* C17 as stated: a token with a byte that is not printable ASCII, be it
   0x80 or above or a control byte like 0x00, 0x01 or 0x7F, makes the
   tokenizer fail with "Non ascii character in preamble". *)
C17_NonPrintable ==
    (shape.fam = "ctl" /\ ret.op = "new" /\ HasNonPrintable(shape.tok)) =>
        /\ ~read_next_string(stream, 2).ok
        /\ read_next_string(stream, 2).err = NonAscii
        /\ ~ret.res.ok /\ ret.res.err = NonAscii

(* C17, amended: the tokenizer fails with "Non ascii character in preamble"
   exactly when the token has a byte of 0x80 or above; a token of bytes below
   0x80 passes the tokenizer unchanged, control bytes and 0x7F included, and
   with such a byte in it new fails in the numeric parser with "Invalid
   number in preamble". *)
C17_NonAscii ==
    (shape.fam = "ctl" /\ ret.op = "new") =>
        IF HasNonAscii(shape.tok)
        THEN /\ ~read_next_string(stream, 2).ok
             /\ read_next_string(stream, 2).err = NonAscii
             /\ ~ret.res.ok /\ ret.res.err = NonAscii /\ ret.res.step = "width"
        ELSE /\ read_next_string(stream, 2).ok
             /\ read_next_string(stream, 2).val = shape.tok
             /\ HasNonPrintable(shape.tok) =>
                   /\ ~ret.res.ok /\ ret.res.err = InvalidNumber
                   /\ ret.res.step = "width"

(* the width token "1" 0x7F *)
C17_Witness ==
    /\ shape.fam = "ctl" /\ ret.op = "new" /\ shape.tok = <<49, 127>>
    /\ ret.res.err = InvalidNumber

(* C18: in every state after a successful new, whatever calls were made
   since, width, height and maxval are the values parsed from the header and
   maxval is at most 65535; so the sample width is 1 or 2, colortype does not
   fail and dimensions returns the same pair. *)
C18_Immutable ==
    state = "ready" =>
        /\ width = new(stream).width /\ height = new(stream).height
        /\ maxwhite = new(stream).maxwhite
        /\ shape.fam = "wf" =>
              /\ width = shape.w.val /\ height = shape.h.val
              /\ maxwhite = shape.m.val
        /\ FitsU16(maxwhite) /\ bytewidth(maxwhite) \in {1, 2}
        /\ ret.op = "colortype" =>
              /\ ret.res.ok
              /\ ret.res.val = <<"RGB", 8 * bytewidth(new(stream).maxwhite)>>
        /\ ret.op = "dimensions" =>
              ret.res.val = <<new(stream).width, new(stream).height>>

(* dimensions after a read_image that failed *)
C18_Witness ==
    /\ state = "ready" /\ shape.fam = "wf" /\ ret.op = "dimensions"
    /\ pos = Len(stream) /\ Less(pos - HeaderEnd, PayloadSize)
    /\ ret.res.val = <<FromNat(2), FromNat(1)>>

(* C19: dimensions, colortype and row_len leave the cursor alone; a
   successful read_image moves it by width * height * 3 * SampleWidth and
   returns the bytes it passed, so on a stream without a failing read the
   successful calls return the consecutive blocks of that size after the
   header; a call with fewer bytes left fails with IoError. *)
C19_CursorFrame ==
    /\ ret.op \in {"dimensions", "colortype", "row_len"} => pos = ret.from
    /\ (ret.op = "read_image" /\ ret.res.ok) =>
          /\ FitsU32(PayloadSize) /\ pos = ret.from + ToNat(PayloadSize)
          /\ ret.res.tag = "U8" => ret.res.data = SubSeq(stream, ret.from + 1, pos)
          /\ ret.res.tag = "U16" =>
                /\ 2 * Len(ret.res.data) = pos - ret.from
                /\ \A k \in 1..Len(ret.res.data) :
                      ret.res.data[k] = 256 * stream[ret.from + 2 * k - 1]
                                            + stream[ret.from + 2 * k]
          /\ NoFailingRead =>
                IF PayloadSize = Zero THEN ret.from = HeaderEnd
                ELSE (ret.from - HeaderEnd) % ToNat(PayloadSize) = 0
    /\ (/\ state = "ready" /\ ret.op = "read_image" /\ FitsU32(PayloadSize)
        /\ Less(Len(stream) - ret.from, PayloadSize)) =>
          ~ret.res.ok /\ ret.res.err = IoError

(* the second call returns the second pixel *)
C19_Witness ==
    /\ shape.fam = "wf" /\ ret.op = "read_image" /\ ret.res.ok
    /\ ret.from = HeaderEnd + 3 /\ pos = HeaderEnd + 6
    /\ SubSeq(stream, HeaderEnd + 1, HeaderEnd + 3) = <<49, 50, 51>>
    /\ ret.res.data = <<52, 53, 54>>

(* width * height * 3 as line 141 computes it *)
Samples(build) ==
    unchecked_mul(unchecked(Mul(width, height), build), Three, build)

(* C20: with 256 <= maxval <= 65535, whenever the checked product width *
   height * 3 * 2 exists the unchecked width * height * 3 does not overflow
   and is half of it, in either build; read_image never panics; and a
   successful read_image returns half as many samples as it read bytes, each
   from a chunk of 2 bytes. *)
C20_NoFaultIn16 ==
    (state = "ready" /\ ~FitsU8(maxwhite)) =>
        /\ opt_size(width, height, maxwhite).some =>
              \A build \in Builds :
                  /\ Samples(build).ok
                  /\ Samples(build).v = Mul(Mul(width, height), Three)
                  /\ MulSmall(Samples(build).v, 2)
                        = opt_size(width, height, maxwhite).v
        /\ ret.op = "read_image" => ret.res.err.kind # "panic"
        /\ (ret.op = "read_image" /\ ret.res.ok) =>
              /\ ret.res.tag = "U16"
              /\ 2 * Len(ret.res.data) = ToNat(ret.res.size.v)
              /\ pos - ret.from = ToNat(ret.res.size.v)
              /\ be_samples(SubSeq(stream, ret.from + 1, pos), Len(ret.res.data)).ok

(* two pixels of 16-bit samples *)
C20_Witness ==
    /\ state = "ready" /\ ~FitsU8(maxwhite)
    /\ ret.op = "read_image" /\ ret.res.ok /\ ret.res.tag = "U16"
    /\ width = FromNat(2) /\ height = FromNat(1)
    /\ ret.res.size.v = FromNat(12) /\ Len(ret.res.data) = 6

(* the largest 16-bit size that fits: 715827882 * 1 * 3 * 2 = 2^32 - 4 *)
C20_Largest ==
    /\ state = "ready" /\ ~FitsU8(maxwhite) /\ ret.op = "read_image"
    /\ opt_size(width, height, maxwhite) = [some |-> TRUE, v |-> <<252, 255, 255, 255>>]

====
